---- MODULE Spec2Model ----
(***************************************************************************)
(* A model of the schedule sensor integration                              *)
(* (custom_components/schedule_sensor): boundary parsing (__init__.py),    *)
(* TimeSlot / DateSlot / Schedule (schedule.py) and the polling            *)
(* ScheduleSensor (sensor.py).                                             *)
(*                                                                         *)
(* Conventions.  A text is a sequence of tokens (numbers and separators),  *)
(* a datetime is a record of its six fields, a time-of-day is <<h, m, s>>  *)
(* and a date is <<y, m, d>>, both compared lexicographically as Python    *)
(* compares datetime.time and datetime.date.  An instant is given by its   *)
(* local wall-clock fields.  A call that can raise returns a record        *)
(* [ok, val, err].  What the host answers (what each template renders to,  *)
(* what calling a condition does, the year of the clock) is state that     *)
(* changes only between the synchronous calls into this code.              *)
(***************************************************************************)
EXTENDS Integers, Sequences, FiniteSets, TLC

VARIABLES
    schedules,        \* ScheduleSensor.schedules: sequence of Schedule objects
    year,             \* the year of dt_util.now() in local time
    sensor_state,     \* ScheduleSensor._state
    active_schedule,  \* ScheduleSensor.active_schedule: index into schedules, 0 is None
    timers,           \* callbacks registered with async_track_point_in_utc_time, not yet fired
    added,            \* async_added_to_hass has run
    next_update,      \* ScheduleSensor._next_update, in seconds since the epoch
    setup,            \* the platform's setup: its phase and the configuration it was given
    render,           \* the host: what each template's async_render returns now
    cond,             \* the host: what calling each schedule's condition does now
    boundary0,        \* history: per schedule, the sort keys (slot.start) read by __init__
    last              \* history: what the last operation was given and what it did

vars ==
    <<schedules, year, sensor_state, active_schedule, timers, added, next_update, setup,
      render, cond, boundary0, last>>

----------------------------------------------------------------------------
(* Bounds of the model *)

MaxSlots == 3         \* slots per schedule
MaxHour == 3          \* hours used by time-of-day boundaries and instants: 0..MaxHour
MaxYearsAhead == 1    \* how many new years the clock passes after construction
MaxTemplates == 1     \* slots of a schedule that have a template
MaxSchedules == 2     \* schedules per sensor
MaxSensorSlots == 2   \* slots per schedule of a sensor, and the hours it uses: 0..MaxSensorSlots

(* The year the clock shows when the schedules are constructed (a leap year,
   so that every configured month/day is a date of that year). *)
FirstYear == 2024

----------------------------------------------------------------------------
(* Results of calls that may raise *)

Ok(v) == [ok |-> TRUE, val |-> v, err |-> "none"]

Raise(e) == [ok |-> FALSE, val |-> <<>>, err |-> e]

----------------------------------------------------------------------------
(* Texts and datetime.strptime *)

Num(n) == [k |-> "num", n |-> n, s |-> ""]

Sep(s) == [k |-> "sep", n |-> 0, s |-> s]

Directives == {"%Y", "%m", "%d", "%H", "%M", "%S", "%f"}

DATE_FORMATS ==
    << <<"%m", "/", "%d">>,
       <<"%Y", "/", "%m", "/", "%d">>,
       <<"%Y", "-", "%m", "-", "%d">>,
       <<"%Y", "-", "%m", "-", "%d", " ", "%H", ":", "%M", ":", "%S">>,
       <<"%Y", "-", "%m", "-", "%d", " ", "%H", ":", "%M", ":", "%S", ".", "%f">> >>

TIME_FORMATS ==
    << <<"%H", ":", "%M">>,
       <<"%H", ":", "%M", ":", "%S">>,
       <<"%Y", "-", "%m", "-", "%d", " ", "%H", ":", "%M", ":", "%S">>,
       <<"%Y", "-", "%m", "-", "%d", " ", "%H", ":", "%M", ":", "%S", ".", "%f">> >>

IsLeap(y) == (y % 4 = 0) /\ ((y % 100 # 0) \/ (y % 400 = 0))

DaysInMonth(y, m) ==
    IF m = 2 THEN (IF IsLeap(y) THEN 29 ELSE 28)
    ELSE IF m \in {4, 6, 9, 11} THEN 30 ELSE 31

(* The range each directive accepts. *)
InRange(d, n) ==
    CASE d = "%Y" -> n \in 1..9999
      [] d = "%m" -> n \in 1..12
      [] d = "%d" -> n \in 1..31
      [] d = "%H" -> n \in 0..23
      [] d = "%M" -> n \in 0..59
      [] d = "%S" -> n \in 0..61
      [] d = "%f" -> n \in 0..999999

(* The value the text gives for directive d, or dflt if fmt has no d. *)
Field(value, fmt, d, dflt) ==
    IF \E i \in 1..Len(fmt) : fmt[i] = d
    THEN value[CHOOSE i \in 1..Len(fmt) : fmt[i] = d].n
    ELSE dflt

(* datetime.strptime(value, fmt): the datetime, fields the format lacks
   defaulting to 1900-01-01 00:00:00, or ValueError. *)
strptime(value, fmt) ==
    LET shape == /\ Len(value) = Len(fmt)
                 /\ \A i \in 1..Len(fmt) :
                       IF fmt[i] \in Directives
                       THEN value[i].k = "num" /\ InRange(fmt[i], value[i].n)
                       ELSE value[i].k = "sep" /\ value[i].s = fmt[i]
        dt == [year   |-> Field(value, fmt, "%Y", 1900),
               month  |-> Field(value, fmt, "%m", 1),
               day    |-> Field(value, fmt, "%d", 1),
               hour   |-> Field(value, fmt, "%H", 0),
               minute |-> Field(value, fmt, "%M", 0),
               second |-> Field(value, fmt, "%S", 0)]
    IN  IF ~shape THEN Raise("ValueError")
        ELSE IF dt.day > DaysInMonth(dt.year, dt.month) THEN Raise("ValueError")
        ELSE Ok(dt)

(* The loop of _parse from format i on: r is what strptime gave for format
   i; a ValueError is passed over and the next format is tried. *)
RECURSIVE ParseFrom(_, _, _), ParseNext(_, _, _, _)
ParseNext(r, value, formats, i) ==
    IF r.ok THEN r ELSE ParseFrom(value, formats, i + 1)

ParseFrom(value, formats, i) ==
    IF i > Len(formats) THEN Raise("ValueError")
    ELSE ParseNext(strptime(value, formats[i]), value, formats, i)

(* The message of the ValueError _parse raises: the f-string formats the
   builtin `input`, not the parameter `value`. *)
ParseErrorMessage(value) ==
    <<Sep("<built-in function input>"), Sep(" is not a recognized date/time")>>

(* _parse: the first format that parses the value wins. *)
Parse(value, formats) == ParseFrom(value, formats, 1)

DateOf(dt) == <<dt.year, dt.month, dt.day>>

TimeOf(dt) == <<dt.hour, dt.minute, dt.second>>

(* .date() and .time() of a parsed datetime; r is what _parse did *)
DateOfParsed(r) == IF r.ok THEN Ok(DateOf(r.val)) ELSE r

TimeOfParsed(r) == IF r.ok THEN Ok(TimeOf(r.val)) ELSE r

parse_date(value) == DateOfParsed(Parse(value, DATE_FORMATS))

parse_time(value) == TimeOfParsed(Parse(value, TIME_FORMATS))

(* datetime.date(y, m, d) *)
new_date(y, m, d) ==
    IF m \in 1..12 /\ d \in 1..DaysInMonth(y, m) THEN Ok(<<y, m, d>>)
    ELSE Raise("ValueError")

(* a < b and a <= b on times-of-day and on dates *)
Less(a, b) ==
    \/ a[1] < b[1]
    \/ a[1] = b[1] /\ a[2] < b[2]
    \/ a[1] = b[1] /\ a[2] = b[2] /\ a[3] < b[3]

LessEq(a, b) == a = b \/ Less(a, b)

----------------------------------------------------------------------------
(* Slots.  A slot is [name, kind, literal, template]: kind is "time" or
   "date", literal is the configured time or date (<<>> when the slot has a
   template) and template is "none" or the slot's own template, named after
   the slot.  tpl gives, for each template, what async_render returns. *)

NoTemplate == "none"

TimeSlot(name, time, time_template) ==
    [name |-> name, kind |-> "time", literal |-> time, template |-> time_template]

DateSlot(name, date, date_template) ==
    [name |-> name, kind |-> "date", literal |-> date, template |-> date_template]

(* ScheduleSlot._converter: dt.time() for a TimeSlot, dt.date() for a DateSlot *)
Converter(slot, dt) == IF slot.kind = "time" THEN TimeOf(dt) ELSE DateOf(dt)

TimeSlotStart(slot, tpl) ==
    IF slot.template = NoTemplate THEN Ok(slot.literal)
    ELSE IF ~tpl[slot.template].ok THEN tpl[slot.template]
    ELSE parse_time(tpl[slot.template].val)

DateSlotStart(slot, yr, tpl) ==
    IF slot.template = NoTemplate
    THEN new_date(yr, slot.literal[2], slot.literal[3])
    ELSE IF ~tpl[slot.template].ok THEN tpl[slot.template]
    ELSE parse_date(tpl[slot.template].val)

(* slot.start, with the clock's year yr *)
Start(slot, yr, tpl) ==
    IF slot.kind = "time" THEN TimeSlotStart(slot, tpl) ELSE DateSlotStart(slot, yr, tpl)

(* The comparisons of after and active_at: s is what slot.start did, p the
   projection of the instant. *)
IsAfter(p, s) == IF s.ok THEN Ok(Less(p, s.val)) ELSE s

IsActiveAt(s, p) == IF s.ok THEN Ok(LessEq(s.val, p)) ELSE s

(* after with the boundary instant itself counted as before the slot *)
IsAfterOrAt(p, s) == IF s.ok THEN Ok(LessEq(p, s.val)) ELSE s

after_inclusive(slot, dt, yr, tpl) ==
    IsAfterOrAt(Converter(slot, dt), Start(slot, yr, tpl))

after(slot, dt, yr, tpl) == IsAfter(Converter(slot, dt), Start(slot, yr, tpl))

(* active_at with the boundary instant itself left out *)
IsStrictlyActiveAt(s, p) == IF s.ok THEN Ok(Less(s.val, p)) ELSE s

active_at_strict(slot, dt, yr, tpl) ==
    IsStrictlyActiveAt(Start(slot, yr, tpl), Converter(slot, dt))

active_at(slot, dt, yr, tpl) == IsActiveAt(Start(slot, yr, tpl), Converter(slot, dt))

(* Every slot re-evaluated by the minute *)
SlotIntervalOfMinutes(slot) == 60

(* TimeSlot.interval and DateSlot.interval *)
SlotInterval(slot) == IF slot.kind = "time" THEN 60 ELSE 86400

----------------------------------------------------------------------------
(* Schedule.  A schedule is [name, state, condition, slots]; condition is
   "none" or the name of the configured condition. *)

NoCondition == "none"

(* list.sort(key, reverse=True) is stable: the element at input position i
   comes after every element with a greater key and after the elements with
   an equal key that precede it in the input. *)
SortRank(keys, i) ==
    1 + Cardinality({j \in 1..Len(keys) :
                        Less(keys[i], keys[j]) \/ (keys[j] = keys[i] /\ j < i)})

(* The sort without reverse=True *)
SortAscending(items, keys) ==
    [p \in 1..Len(items) |->
        items[CHOOSE i \in 1..Len(items) :
                 1 + Cardinality({j \in 1..Len(keys) :
                        Less(keys[j], keys[i]) \/ (keys[j] = keys[i] /\ j < i)}) = p]]

SortDescending(items, keys) ==
    [p \in 1..Len(items) |->
        items[CHOOSE i \in 1..Len(items) : SortRank(keys, i) = p]]

(* Schedule.__init__: the constructed schedule, or the error slot.start
   raised while the sort read its keys. *)
NewScheduleSorted(name, condition, slots, starts) ==
    IF \E i \in 1..Len(slots) : ~starts[i].ok
    THEN Raise(starts[CHOOSE i \in 1..Len(slots) :
                         /\ ~starts[i].ok
                         /\ \A j \in 1..(i - 1) : starts[j].ok].err)
    ELSE Ok([name      |-> name,
             state     |-> "unknown",
             condition |-> condition,
             slots     |-> SortDescending(slots,
                              [i \in 1..Len(slots) |-> starts[i].val])])

NewSchedule(name, condition, slots, yr, tpl) ==
    NewScheduleSorted(name, condition, slots,
                      [i \in 1..Len(slots) |-> Start(slots[i], yr, tpl)])

(* The loop of Schedule.update from slot i on: the index of the first slot
   active at dt (0 when there is none), the slots whose start was read, and
   the error when reading one raised. *)
RECURSIVE ScanFrom(_, _, _, _, _, _), ScanNext(_, _, _, _, _, _, _)
ScanNext(a, slots, i, dt, yr, tpl, calls) ==
    IF ~a.ok
    THEN [ok |-> FALSE, err |-> a.err, idx |-> 0, calls |-> Append(calls, i)]
    ELSE IF a.val
    THEN [ok |-> TRUE, err |-> "none", idx |-> i, calls |-> Append(calls, i)]
    ELSE ScanFrom(slots, i + 1, dt, yr, tpl, Append(calls, i))

ScanFrom(slots, i, dt, yr, tpl, calls) ==
    IF i > Len(slots) THEN [ok |-> TRUE, err |-> "none", idx |-> 0, calls |-> calls]
    ELSE ScanNext(active_at(slots[i], dt, yr, tpl), slots, i, dt, yr, tpl, calls)

(* What update does, given wrap, what slots[-1].after did, and scan, what
   the loop does; onraise is the state an exception leaves. *)
UpdateOutcome(schedule, wrap, scan, onraise) ==
    IF ~wrap.ok
    THEN [ok |-> FALSE, err |-> wrap.err, state |-> onraise,
          branch |-> "raise", calls |-> <<Len(schedule.slots)>>]
    ELSE IF wrap.val
    THEN [ok |-> TRUE, err |-> "none", state |-> schedule.slots[1].name,
          branch |-> "wraparound", calls |-> <<Len(schedule.slots)>>]
    ELSE IF ~scan.ok
    THEN [ok |-> FALSE, err |-> scan.err, state |-> onraise,
          branch |-> "raise", calls |-> scan.calls]
    ELSE IF scan.idx # 0
    THEN [ok |-> TRUE, err |-> "none", state |-> schedule.slots[scan.idx].name,
          branch |-> "scan", calls |-> scan.calls]
    ELSE [ok |-> TRUE, err |-> "none", state |-> "unknown",
          branch |-> "fallback", calls |-> scan.calls]

(* update of a schedule without slots: slots[-1] raises IndexError *)
EmptyUpdate(schedule) ==
    [ok |-> FALSE, err |-> "IndexError", state |-> schedule.state,
     branch |-> "raise", calls |-> <<>>]

(* update with the state reset to "unknown" before the slots are looked at *)
ScheduleUpdateResetting(schedule, dt, yr, tpl) ==
    IF Len(schedule.slots) = 0 THEN EmptyUpdate(schedule)
    ELSE
    UpdateOutcome(schedule,
                  after(schedule.slots[Len(schedule.slots)], dt, yr, tpl),
                  ScanFrom(schedule.slots, 1, dt, yr, tpl, <<Len(schedule.slots)>>),
                  "unknown")

(* Schedule.update(dt): [ok, err, state, branch, calls], state being the
   schedule's state after the call, branch the return taken and calls the
   slots whose start was read. *)
ScheduleUpdate(schedule, dt, yr, tpl) ==
    IF Len(schedule.slots) = 0 THEN EmptyUpdate(schedule)
    ELSE
    UpdateOutcome(schedule,
                  after(schedule.slots[Len(schedule.slots)], dt, yr, tpl),
                  ScanFrom(schedule.slots, 1, dt, yr, tpl, <<Len(schedule.slots)>>),
                  schedule.state)

(* Schedule.interval: slots[0].interval, IndexError without slots *)
ScheduleInterval(schedule) ==
    IF Len(schedule.slots) = 0 THEN Raise("IndexError")
    ELSE Ok(SlotInterval(schedule.slots[1]))

(* active with every exception of the condition taken as inactive *)
ScheduleActiveFailClosed(schedule, c) ==
    IF schedule.condition = NoCondition THEN Ok(TRUE)
    ELSE IF c.ok THEN c
    ELSE Ok(FALSE)

(* Schedule.active; c is what calling the condition does: Ok(TRUE),
   Ok(FALSE) or an exception. *)
ScheduleActive(schedule, c) ==
    IF schedule.condition = NoCondition THEN Ok(TRUE)
    ELSE IF c.ok THEN c
    ELSE IF c.err = "ConditionErrorContainer" THEN Ok(TRUE)
    ELSE c

----------------------------------------------------------------------------
(* ScheduleSensor *)

(* The loop of _calculate_active_schedule from schedule k on: the index of
   the first schedule whose active is true (0 is None), or the error its
   condition raised; a is what schedule k's active did. *)
RECURSIVE ActiveFrom(_, _, _), ActiveNext(_, _, _, _)
ActiveNext(a, scheds, conds, k) ==
    IF ~a.ok THEN [ok |-> FALSE, err |-> a.err, idx |-> 0]
    ELSE IF a.val THEN [ok |-> TRUE, err |-> "none", idx |-> k]
    ELSE ActiveFrom(scheds, conds, k + 1)

ActiveFrom(scheds, conds, k) ==
    IF k > Len(scheds) THEN [ok |-> TRUE, err |-> "none", idx |-> 0]
    ELSE ActiveNext(ScheduleActive(scheds[k], conds[k]), scheds, conds, k)

(* The loop without its return: the last active schedule wins. *)
RECURSIVE LastActiveFrom(_, _, _), LastActiveNext(_, _, _)
LastActiveNext(a, rest, k) ==
    IF ~a.ok THEN [ok |-> FALSE, err |-> a.err, idx |-> 0]
    ELSE IF ~rest.ok \/ rest.idx # 0 \/ ~a.val THEN rest
    ELSE [ok |-> TRUE, err |-> "none", idx |-> k]

LastActiveFrom(scheds, conds, k) ==
    IF k > Len(scheds) THEN [ok |-> TRUE, err |-> "none", idx |-> 0]
    ELSE LastActiveNext(ScheduleActive(scheds[k], conds[k]),
                        LastActiveFrom(scheds, conds, k + 1), k)

CalculateLastActiveSchedule(scheds, conds) == LastActiveFrom(scheds, conds, 1)

(* _calculate_active_schedule *)
CalculateActiveSchedule(scheds, conds) == ActiveFrom(scheds, conds, 1)

(* _update_internal_state putting the sensor's state back to None when no
   schedule is active *)
InternalStateOutcomeResetting(scheds, sstate, sel, upd) ==
    IF ~sel.ok
    THEN [ok |-> FALSE, err |-> sel.err, active |-> 0,
          schedules |-> scheds, state |-> sstate]
    ELSE IF sel.idx = 0
    THEN [ok |-> TRUE, err |-> "none", active |-> 0,
          schedules |-> scheds, state |-> "None"]
    ELSE IF ~upd.ok
    THEN [ok |-> FALSE, err |-> upd.err, active |-> sel.idx,
          schedules |-> scheds, state |-> sstate]
    ELSE [ok |-> TRUE, err |-> "none", active |-> sel.idx,
          schedules |-> [scheds EXCEPT ![sel.idx].state = upd.state],
          state |-> upd.state]

(* What _update_internal_state does, given sel, what
   _calculate_active_schedule did, and upd, what the selected schedule's
   update does: [ok, err, active, schedules, state], the sensor's
   active_schedule, schedules and _state after the call. *)
InternalStateOutcome(scheds, sstate, sel, upd) ==
    IF ~sel.ok
    THEN [ok |-> FALSE, err |-> sel.err, active |-> 0,
          schedules |-> scheds, state |-> sstate]
    ELSE IF sel.idx = 0
    THEN [ok |-> TRUE, err |-> "none", active |-> 0,
          schedules |-> scheds, state |-> sstate]
    ELSE IF ~upd.ok
    THEN [ok |-> FALSE, err |-> upd.err, active |-> sel.idx,
          schedules |-> scheds, state |-> sstate]
    ELSE [ok |-> TRUE, err |-> "none", active |-> sel.idx,
          schedules |-> [scheds EXCEPT ![sel.idx].state = upd.state],
          state |-> upd.state]

UpdateSelected(scheds, sstate, sel, dt, yr, tpl) ==
    InternalStateOutcome(scheds, sstate, sel,
                         ScheduleUpdate(scheds[sel.idx], dt, yr, tpl))

(* _update_internal_state(dt) *)
UpdateInternalState(scheds, conds, sstate, dt, yr, tpl) ==
    UpdateSelected(scheds, sstate, CalculateActiveSchedule(scheds, conds), dt, yr, tpl)

(* The next update a whole interval after now *)
NextUpdateUnaligned(now, i) ==
    IF i.ok THEN Ok(now + i.val) ELSE i

(* The instant _calculate_next_update returns when a schedule is active,
   given i, what active_schedule.interval did: now is utcnow() in whole
   seconds since the epoch. *)
NextUpdateAligned(now, i) ==
    IF i.ok THEN Ok(now + (i.val - (now % i.val))) ELSE i

(* The default delta used only when there is no schedule at all, the first
   schedule's interval standing in when none is active *)
CalculateNextUpdateOfFirst(scheds, active, now) ==
    IF Len(scheds) = 0 THEN Ok(now + 10)
    ELSE NextUpdateAligned(now, ScheduleInterval(scheds[IF active = 0 THEN 1 ELSE active]))

(* _calculate_next_update with utcnow() = now; active is the index of
   active_schedule, 0 for None. *)
CalculateNextUpdate(scheds, active, now) ==
    IF active = 0 THEN Ok(now + 10)
    ELSE NextUpdateAligned(now, ScheduleInterval(scheds[active]))

----------------------------------------------------------------------------
(* The configurations and the inputs the model draws from *)

TimeText(h) == <<Num(h), Sep(":"), Num(0)>>                      \* "0h:00"

MonthDayText(m, d) == <<Num(m), Sep("/"), Num(d)>>               \* "mm/dd"

IsoDateText(y, m, d) == <<Num(y), Sep("-"), Num(m), Sep("-"), Num(d)>>

BadTimeText == MonthDayText(2, 1)                                \* "02/01"

BadDateText == <<Num(10), Sep("-"), Num(21)>>                    \* "10-21"

(* What a slot's configuration gives as its literal boundary *)
ConfigTexts(kind, hours) ==
    IF kind = "time" THEN {TimeText(h) : h \in 1..hours}
    ELSE {MonthDayText(3, 1), MonthDayText(12, 25), IsoDateText(FirstYear, 2, 29)}

(* What a template may render to *)
Renders(kind, hours) ==
    IF kind = "time"
    THEN {Ok(TimeText(h)) : h \in 1..hours}
            \cup {Ok(BadTimeText), Raise("TemplateError")}
    ELSE {Ok(MonthDayText(3, 1)), Ok(IsoDateText(FirstYear, 12, 25)),
          Ok(BadDateText), Raise("TemplateError")}

(* The instants given to update *)
DateTime(y, mo, d, h, mi, s) ==
    [year |-> y, month |-> mo, day |-> d, hour |-> h, minute |-> mi, second |-> s]

Instants(kind, hours) ==
    IF kind = "time"
    THEN {DateTime(FirstYear, 1, 1, h, 0, 0) : h \in 0..hours}
    ELSE {DateTime(y, md[1], md[2], 0, 0, 0) :
            y \in FirstYear..(FirstYear + MaxYearsAhead),
            md \in {<<1, 1>>, <<3, 1>>, <<6, 15>>, <<12, 25>>}}

(* 2010-01-01T00:00:00Z in seconds since the epoch, a UTC midnight *)
Midnight == 1262304000

(* What utcnow() may give: on a minute and a day boundary, inside a minute,
   at its last second, on a minute boundary inside a day, at the last second
   of a day *)
Nows == {Midnight + o : o \in {0, 30, 59, 60, 86399}}

(* What utcnow() gives to a sensor whose cycles are followed for their
   selection only *)
SensorNows == {Midnight + 30}

(* Schedules constructed directly, not by a platform setup *)
NoSetup == [phase |-> "done", config |-> "none"]

(* What calling a condition may do *)
ConditionResults ==
    {Ok(TRUE), Ok(FALSE), Raise("ConditionErrorContainer"), Raise("HomeAssistantError")}

(* Slot names: the slot at input position i of schedule k *)
SlotNames ==
    << <<"t1", "t2", "t3", "t4">>, <<"u1", "u2", "u3", "u4">>, <<"v1", "v2", "v3", "v4">> >>

ScheduleNames == <<"first", "second", "third">>

(* A slot's source in the configuration: a template, or a literal text that
   the schema's parse_time / parse_date accepts *)
Sources(kind, hours) ==
    {src \in [template : {FALSE}, text : ConfigTexts(kind, hours)] :
        IF kind = "time" THEN parse_time(src.text).ok ELSE parse_date(src.text).ok}
        \cup [template : {TRUE}, text : {<<>>}]

(* _TIME_SCHEMA / _DATE_SCHEMA followed by from_config: the slot of a source *)
SlotFromConfig(kind, name, src) ==
    IF kind = "time"
    THEN TimeSlot(name,
                  IF src.template THEN <<>> ELSE parse_time(src.text).val,
                  IF src.template THEN name ELSE NoTemplate)
    ELSE DateSlot(name,
                  IF src.template THEN <<>> ELSE parse_date(src.text).val,
                  IF src.template THEN name ELSE NoTemplate)

IsLiteral(schedule) ==
    \A i \in 1..Len(schedule.slots) : schedule.slots[i].template = NoTemplate

Kind(schedule) == schedule.slots[1].kind

(* The slot lists a configuration can give schedule number k *)
SlotLists(k, kinds, maxSlots, hours) ==
    UNION { { [i \in 1..kn[2] |-> SlotFromConfig(kn[1], SlotNames[k][i], src[i])] :
                src \in {f \in [1..kn[2] -> Sources(kn[1], hours)] :
                           Cardinality({i \in 1..kn[2] : f[i].template}) <= MaxTemplates} }
            : kn \in kinds \X (1..maxSlots) }

TemplateNames(slots) == {slots[i].template : i \in 1..Len(slots)} \ {NoTemplate}

(* What the templates of a slot list may render to *)
RenderStates(slots, hours) == [TemplateNames(slots) -> Renders(slots[1].kind, hours)]

(* The sort keys Schedule.__init__ read: the start of each slot of the
   constructed schedule, in sorted order *)
SortKeys(schedule, yr, tpl) ==
    [i \in 1..Len(schedule.slots) |-> Start(schedule.slots[i], yr, tpl).val]

----------------------------------------------------------------------------
(* One Schedule, used through its own interface *)

Init ==
    /\ year = FirstYear
    /\ \E slots \in SlotLists(1, {"time", "date"}, MaxSlots, MaxHour) :
         \E tpl \in RenderStates(slots, MaxHour) :
          \E new \in {NewSchedule(ScheduleNames[1], NoCondition, slots, FirstYear, tpl)} :
             /\ new.ok
             /\ schedules = <<new.val>>
             /\ render = tpl
             /\ boundary0 = <<SortKeys(new.val, FirstYear, tpl)>>
    /\ cond = <<Ok(TRUE)>>
    /\ sensor_state = "None"
    /\ active_schedule = 0
    /\ timers = 0
    /\ added = FALSE
    /\ next_update = 0
    /\ setup = NoSetup
    /\ last = [op |-> "init"]

(* update sorting the slots again by what slot.start gives now *)
Resorted(schedule, starts) ==
    IF \E i \in 1..Len(starts) : ~starts[i].ok THEN schedule.slots
    ELSE SortDescending(schedule.slots, [i \in 1..Len(starts) |-> starts[i].val])

UpdateResorting(k, dt) ==
    \E res \in {ScheduleUpdate(schedules[k], dt, year, render)} :
        /\ schedules' = [schedules EXCEPT
                            ![k].state = res.state,
                            ![k].slots = Resorted(schedules[k],
                                            [i \in 1..Len(schedules[k].slots) |->
                                                Start(schedules[k].slots[i], year, render)])]
        /\ last' = [op |-> "update", sched |-> k, dt |-> dt, res |-> res]
        /\ UNCHANGED <<year, sensor_state, active_schedule, timers, added, next_update,
                       setup, render, cond, boundary0>>

(* schedule.update(dt) *)
Update(k, dt) ==
    \E res \in {ScheduleUpdate(schedules[k], dt, year, render)} :
        /\ schedules' = [schedules EXCEPT ![k].state = res.state]
        /\ last' = [op |-> "update", sched |-> k, dt |-> dt, res |-> res]
        /\ UNCHANGED <<year, sensor_state, active_schedule, timers, added, next_update,
                       setup, render, cond, boundary0>>

(* The host's state changes: template t now renders to r. *)
HostRender(t, r) ==
    /\ render[t] # r
    /\ render' = [render EXCEPT ![t] = r]
    /\ last' = [op |-> "host"]
    /\ UNCHANGED <<schedules, year, sensor_state, active_schedule, timers, added,
                   next_update, setup, cond, boundary0>>

(* The local clock passes a new year. *)
NewYear ==
    /\ year < FirstYear + MaxYearsAhead
    /\ year' = year + 1
    /\ last' = [op |-> "host"]
    /\ UNCHANGED <<schedules, sensor_state, active_schedule, timers, added, next_update,
                   setup, render, cond, boundary0>>

(* schedule.name, schedule.state and schedule.interval read *)
ReadProperties(k) ==
    /\ last' = [op |-> "read", sched |-> k, name |-> schedules[k].name,
                state |-> schedules[k].state, interval |-> ScheduleInterval(schedules[k])]
    /\ UNCHANGED <<schedules, year, sensor_state, active_schedule, timers, added,
                   next_update, setup, render, cond, boundary0>>

Next ==
    \/ \E dt \in Instants(Kind(schedules[1]), MaxHour) : Update(1, dt)
    \/ ReadProperties(1)
    \/ \E t \in DOMAIN render : \E r \in Renders(Kind(schedules[1]), MaxHour) :
          HostRender(t, r)
    \/ NewYear

Spec == Init /\ [][Next]_vars

----------------------------------------------------------------------------
(* Properties of one Schedule (checked under Spec) *)

TheSchedule == schedules[1]

LastUpdate == last.op = "update"

(* The boundaries of the schedule's slots as slot.start gives them now; no
   host state changes between an update and the state that follows it. *)
StartNow(i) == Start(TheSchedule.slots[i], year, render)

AllStartsResolve == \A i \in 1..Len(TheSchedule.slots) : StartNow(i).ok

(* The projection of the last update's instant *)
Projection == Converter(TheSchedule.slots[1], last.dt)

BeforeAllStarts ==
    \A i \in 1..Len(TheSchedule.slots) : Less(Projection, StartNow(i).val)

(* Slot i has the greatest boundary that is <= the projection. *)
NearestPreceding(i) ==
    /\ LessEq(StartNow(i).val, Projection)
    /\ \A j \in 1..Len(TheSchedule.slots) :
          LessEq(StartNow(j).val, Projection) => LessEq(StartNow(j).val, StartNow(i).val)

(* Slot i has the largest boundary of all. *)
LargestStart(i) ==
    \A j \in 1..Len(TheSchedule.slots) : LessEq(StartNow(j).val, StartNow(i).val)

(* C1: on a schedule of literal slots, an update at an instant whose
   projection is not before the smallest boundary leaves as state the name
   of a slot with the greatest boundary <= the projection, whatever the
   input order was. *)
C1_NearestPrecedingBoundary ==
    (LastUpdate /\ IsLiteral(TheSchedule) /\ AllStartsResolve /\ ~BeforeAllStarts)
        => /\ last.res.ok
           /\ \E i \in 1..Len(TheSchedule.slots) :
                 /\ TheSchedule.state = TheSchedule.slots[i].name
                 /\ NearestPreceding(i)

(* Three literal slots given in ascending order, the update selecting the
   middle one by the scan. *)
C1_Witness ==
    /\ LastUpdate /\ IsLiteral(TheSchedule) /\ AllStartsResolve /\ ~BeforeAllStarts
    /\ Len(TheSchedule.slots) = 3
    /\ TheSchedule.slots[1].name = "t3"
    /\ TheSchedule.slots[3].name = "t1"
    /\ last.res.branch = "scan"
    /\ TheSchedule.state = "t2"
    /\ Less(StartNow(3).val, StartNow(2).val) /\ Less(StartNow(2).val, StartNow(1).val)

(* C2: an update at an instant whose projection is before every boundary
   leaves as state the name of the slot with the largest boundary, which is
   slots[0], and reads no slot but the last. *)
C2_WraparoundSelectsLargest ==
    (LastUpdate /\ AllStartsResolve /\ BeforeAllStarts)
        => /\ last.res.ok
           /\ TheSchedule.state = TheSchedule.slots[1].name
           /\ LargestStart(1)
           /\ last.res.calls = <<Len(TheSchedule.slots)>>

(* C3: the state is a slot's name or "unknown", and an update of a schedule
   of literal slots that returns never takes the no-match fallback nor
   leaves "unknown". *)
C3_OneSlotOrUnknown ==
    /\ \A k \in 1..Len(schedules) :
          schedules[k].state \in
             {schedules[k].slots[i].name : i \in 1..Len(schedules[k].slots)} \cup {"unknown"}
    /\ (LastUpdate /\ IsLiteral(TheSchedule) /\ last.res.ok)
          => /\ last.res.branch \in {"wraparound", "scan"}
             /\ TheSchedule.state # "unknown"

(* A literal schedule of several slots updated at exactly its smallest
   boundary: the wraparound does not apply and only the last slot matches. *)
C3_Witness ==
    /\ LastUpdate /\ IsLiteral(TheSchedule) /\ last.res.ok
    /\ Len(TheSchedule.slots) >= 2
    /\ last.res.branch = "scan"
    /\ Projection = StartNow(Len(TheSchedule.slots)).val
    /\ TheSchedule.state = TheSchedule.slots[Len(TheSchedule.slots)].name
    /\ Less(Projection, StartNow(1).val)

(* C4: an update that raises while resolving a boundary leaves the
   schedule's state (and the schedule) as it was. *)
C4_FailedUpdateKeepsState ==
    [][(last'.op = "update" /\ ~last'.res.ok) => schedules' = schedules]_vars

(* An update raised ValueError on an unparseable rendering in the scan, after
   an earlier update had set a slot's name. *)
C4_Witness ==
    /\ LastUpdate /\ ~last.res.ok
    /\ last.res.err = "ValueError"
    /\ Len(last.res.calls) >= 2
    /\ TheSchedule.state # "unknown"

(* C6: an update compares against the boundaries obtained at construction:
   every template boundary it reads is the one the constructor's sort read,
   and the boundaries are still in descending order. *)
C6_ResolvedOnceAtConstruction ==
    (LastUpdate /\ last.res.ok) =>
        /\ \A n \in 1..Len(last.res.calls) :
              LET i == last.res.calls[n]
              IN  TheSchedule.slots[i].template # NoTemplate
                     => StartNow(i) = Ok(boundary0[1][i])
        /\ AllStartsResolve =>
              \A i, j \in 1..Len(TheSchedule.slots) :
                  i < j => LessEq(StartNow(j).val, StartNow(i).val)

(* C7: every boundary DateSlot.start returns carries the clock's year. *)
C7_StartCarriesCurrentYear ==
    \A i \in 1..Len(TheSchedule.slots) :
        (TheSchedule.slots[i].kind = "date" /\ StartNow(i).ok)
            => StartNow(i).val[1] = year

(* C8: among slots with the same boundary, an update selects the one that
   came first in the input (slot names are numbered by input position), in
   the scan and in the wraparound. *)
C8_TieSelectsFirstInInput ==
    (LastUpdate /\ last.res.ok /\ AllStartsResolve)
        => \A i, j \in 1..Len(TheSchedule.slots) :
              (/\ TheSchedule.state = TheSchedule.slots[i].name
               /\ StartNow(i) = StartNow(j)
               /\ i # j)
                  => \E a, b \in 1..Len(SlotNames[1]) :
                        /\ a < b
                        /\ TheSchedule.slots[i].name = SlotNames[1][a]
                        /\ TheSchedule.slots[j].name = SlotNames[1][b]

----------------------------------------------------------------------------
(* A ScheduleSensor polling its schedules *)

SensorKinds == {"time"}

(* The slot lists of a sensor's schedule number k: the slot at input
   position i has a template or the literal boundary 0i:00. *)
SensorSlotLists(k) ==
    {l \in SlotLists(k, SensorKinds, MaxSensorSlots, MaxSensorSlots) :
        \A i \in 1..Len(l) : l[i].template = NoTemplate => l[i].literal = <<i, 0, 0>>}

(* The schedules async_setup_platform constructs: each with or without a
   condition, from its own slot list *)
RECURSIVE SetupFrom(_, _, _, _)
SetupFrom(lists, conds, k, tpl) ==
    IF k > Len(lists) THEN <<>>
    ELSE <<NewSchedule(ScheduleNames[k], conds[k], lists[k], FirstYear, tpl).val>>
            \o SetupFrom(lists, conds, k + 1, tpl)

SensorInit ==
    /\ year = FirstYear
    /\ \E n \in 1..MaxSchedules :
         \E lists \in [1..n -> UNION {SensorSlotLists(k) : k \in 1..n}] :
           /\ \A k \in 1..n : lists[k] \in SensorSlotLists(k)
           /\ Cardinality(UNION {TemplateNames(lists[k]) : k \in 1..n}) <= MaxTemplates
           /\ \E tpl \in [UNION {TemplateNames(lists[k]) : k \in 1..n}
                             -> Renders("time", MaxSensorSlots)] :
               \E conds \in [1..n -> {NoCondition, "cond"}] :
                \E cnd \in [1..n -> ConditionResults] :
                 \E dt \in Instants("time", MaxSensorSlots) :
                  /\ \E now \in SensorNows : next_update = now + 10
                  /\ \A k \in 1..n : NewSchedule(ScheduleNames[k], conds[k], lists[k],
                                                  FirstYear, tpl).ok
                  /\ \A k \in 1..n : conds[k] = NoCondition => cnd[k] = Ok(TRUE)
                  /\ \E scheds \in {SetupFrom(lists, conds, 1, tpl)} :
                      \E first \in {UpdateInternalState(scheds, cnd, "None", dt,
                                                        FirstYear, tpl)} :
                         /\ first.ok
                         /\ render = tpl
                         /\ cond = cnd
                         /\ schedules = first.schedules
                         /\ sensor_state = first.state
                         /\ active_schedule = first.active
                         /\ boundary0 = [k \in 1..n |-> SortKeys(scheds[k], FirstYear, tpl)]
    /\ timers = 0
    /\ added = FALSE
    /\ setup = NoSetup
    /\ last = [op |-> "init"]

(* async_added_to_hass, with utcnow() = now: the first callback is
   registered for the instant _calculate_next_update returns. *)
AddedToHass(now) ==
    \E nxt \in {CalculateNextUpdate(schedules, active_schedule, now)} :
        /\ setup.phase = "done"
        /\ ~added
        /\ added' = TRUE
        /\ timers' = IF nxt.ok THEN timers + 1 ELSE timers
        /\ next_update' = IF nxt.ok THEN nxt.val ELSE next_update
        /\ last' = [op |-> "added", now |-> now, ok |-> nxt.ok, err |-> nxt.err]
        /\ UNCHANGED <<schedules, year, sensor_state, active_schedule, setup, render, cond,
                       boundary0>>

(* A registered callback fires: point_in_time_listener(dt), with
   utcnow() = now when it calls _calculate_next_update.  When
   _update_internal_state raises, the listener ends before it calculates the
   next update and registers the next callback. *)
PointInTimeListener(dt, now) ==
    \E res \in {UpdateInternalState(schedules, cond, sensor_state, dt, year, render)} :
      \E nxt \in {CalculateNextUpdate(res.schedules, res.active, now)} :
        /\ timers > 0
        /\ schedules' = res.schedules
        /\ sensor_state' = res.state
        /\ active_schedule' = res.active
        /\ timers' = IF res.ok /\ nxt.ok THEN timers ELSE timers - 1
        /\ next_update' = IF res.ok /\ nxt.ok THEN nxt.val ELSE next_update
        /\ last' = [op |-> "cycle", dt |-> dt, now |-> now, ok |-> res.ok /\ nxt.ok,
                    err |-> IF res.ok THEN nxt.err ELSE res.err]
        /\ UNCHANGED <<year, added, setup, render, cond, boundary0>>

(* active putting the state back to "unknown" when the condition raises *)
ReadActiveResetting(k) ==
    \E res \in {ScheduleActive(schedules[k], cond[k])} :
        /\ last' = [op |-> "active", sched |-> k, res |-> res]
        /\ schedules' = [schedules EXCEPT
                            ![k].state = IF cond[k].ok THEN @ ELSE "unknown"]
        /\ UNCHANGED <<year, sensor_state, active_schedule, timers, added, next_update,
                       setup, render, cond, boundary0>>

(* schedule.active read on its own *)
ReadActive(k) ==
    /\ last' = [op |-> "active", sched |-> k, res |-> ScheduleActive(schedules[k], cond[k])]
    /\ UNCHANGED <<schedules, year, sensor_state, active_schedule, timers, added,
                   next_update, setup, render, cond, boundary0>>

(* The host's state changes: calling the condition of schedule k now does c. *)
HostCondition(k, c) ==
    /\ schedules[k].condition # NoCondition
    /\ cond[k] # c
    /\ cond' = [cond EXCEPT ![k] = c]
    /\ last' = [op |-> "host"]
    /\ UNCHANGED <<schedules, year, sensor_state, active_schedule, timers, added,
                   next_update, setup, render, boundary0>>

SensorNext ==
    \/ \E now \in SensorNows : AddedToHass(now)
    \/ \E dt \in Instants("time", MaxSensorSlots) :
          \E now \in SensorNows : PointInTimeListener(dt, now)
    \/ \E k \in 1..Len(schedules) : ReadActive(k)
    \/ \E k \in 1..Len(schedules) : ReadProperties(k)
    \/ \E k \in 1..Len(schedules) : \E c \in ConditionResults : HostCondition(k, c)
    \/ \E t \in DOMAIN render : \E r \in Renders("time", MaxSensorSlots) : HostRender(t, r)

SensorSpec == SensorInit /\ [][SensorNext]_vars

----------------------------------------------------------------------------
(* Properties of the polling sensor (checked under SensorSpec) *)

LastCycle == last.op = "cycle"

(* What schedule.active gives for schedule k in the host's present state *)
ActiveNow(k) == ScheduleActive(schedules[k], cond[k])

(* Schedule k is the first in declaration order whose active is true. *)
FirstActive(k) ==
    /\ ActiveNow(k) = Ok(TRUE)
    /\ \A j \in 1..(k - 1) : ActiveNow(j) = Ok(FALSE)

(* C5: a cycle in which resolving a slot boundary raised (the template
   failed or its rendering did not parse) leaves a next callback registered,
   so that a later cycle runs. *)
C5_PollingSurvivesError ==
    (added /\ LastCycle /\ ~last.ok /\ last.err \in {"TemplateError", "ValueError"})
        => timers >= 1

(* C9: active is true without a condition, else the condition's result,
   true when the condition raises ConditionErrorContainer, and any other
   exception of the condition is raised to the caller. *)
C9_ActiveFailsOpen ==
    last.op = "active" =>
        LET s == schedules[last.sched]
            c == cond[last.sched]
        IN  /\ s.condition = NoCondition => last.res = Ok(TRUE)
            /\ (s.condition # NoCondition /\ c.ok) => last.res = Ok(c.val)
            /\ (s.condition # NoCondition /\ c = Raise("ConditionErrorContainer"))
                  => last.res = Ok(TRUE)
            /\ (s.condition # NoCondition /\ ~c.ok /\ c.err # "ConditionErrorContainer")
                  => (~last.res.ok /\ last.res.err = c.err)

(* active read while the condition raises ConditionErrorContainer *)
C9_Witness ==
    /\ last.op = "active"
    /\ schedules[last.sched].condition # NoCondition
    /\ cond[last.sched] = Raise("ConditionErrorContainer")
    /\ last.res = Ok(TRUE)

(* C10: a cycle that completes selects the first schedule in declaration
   order whose active is true, leaves that schedule in the state update
   gives for the cycle's instant, and reports that state; with no active
   schedule it selects none. *)
C10_FirstActiveScheduleReported ==
    (LastCycle /\ last.ok) =>
        /\ \A k \in 1..Len(schedules) :
              FirstActive(k) =>
                 /\ active_schedule = k
                 /\ schedules[k].state =
                       ScheduleUpdate(schedules[k], last.dt, year, render).state
                 /\ sensor_state = schedules[k].state
        /\ (\A k \in 1..Len(schedules) : ~FirstActive(k)) => active_schedule = 0

(* Both schedules are active, the second had been selected and updated
   earlier, and the cycle selected and reported the first. *)
C10_Witness ==
    /\ LastCycle /\ last.ok
    /\ Len(schedules) = 2
    /\ ActiveNow(1) = Ok(TRUE) /\ ActiveNow(2) = Ok(TRUE)
    /\ schedules[2].state # "unknown"
    /\ active_schedule = 1
    /\ sensor_state = schedules[1].state
    /\ Len(schedules[1].slots) = 2
    /\ sensor_state = schedules[1].slots[2].name

----------------------------------------------------------------------------
(* Configuration validation: the schemas of sensor.py.  A dict is a record
   with the set of its keys in the field keys; the field of a key the dict
   lacks holds a filler.  A slot definition is the dict [name, time,
   time_template, date, date_template]; a literal is a text and a template is
   its source, "valid" or "malformed".  A template is named after its slot. *)

Has(config, key) == key \in config.keys

Invalid == Raise("MultipleInvalid")

(* vol.Datetime(format="%M:%S") followed by parse_time *)
TimeLiteralValid(text) ==
    strptime(text, <<"%M", ":", "%S">>).ok /\ parse_time(text).ok

(* TimeSlot.from_config and DateSlot.from_config on a validated dict, in
   which the schema has put the parsed time or date in place of its text; a
   key the dict lacks gives None, here <<>> for the literal and NoTemplate
   for the template. *)
TimeSlotFromConfig(config) ==
    TimeSlot(config.name,
             IF Has(config, "time") THEN parse_time(config.time).val ELSE <<>>,
             IF Has(config, "time_template") THEN config.name ELSE NoTemplate)

DateSlotFromConfig(config) ==
    DateSlot(config.name,
             IF Has(config, "date") THEN parse_date(config.date).val ELSE <<>>,
             IF Has(config, "date_template") THEN config.name ELSE NoTemplate)

(* _TIME_SCHEMA with time and time_template optional, not exclusive *)
TIME_SCHEMA_Inclusive(config) ==
    IF ~(config.keys \subseteq {"name", "time", "time_template"}) THEN Invalid
    ELSE IF ~Has(config, "name") THEN Invalid
    ELSE IF Has(config, "time") /\ ~TimeLiteralValid(config.time) THEN Invalid
    ELSE IF Has(config, "time_template") /\ config.time_template = "malformed" THEN Invalid
    ELSE IF ~Has(config, "time") /\ ~Has(config, "time_template") THEN Invalid
    ELSE Ok(TimeSlotFromConfig(config))

(* _TIME_SCHEMA: the dict schema (no other key, name required, time and
   time_template exclusive, each validated), has_at_least_one_key, then
   TimeSlot.from_config *)
TIME_SCHEMA(config) ==
    IF ~(config.keys \subseteq {"name", "time", "time_template"}) THEN Invalid
    ELSE IF ~Has(config, "name") THEN Invalid
    ELSE IF Has(config, "time") /\ Has(config, "time_template") THEN Invalid
    ELSE IF Has(config, "time") /\ ~TimeLiteralValid(config.time) THEN Invalid
    ELSE IF Has(config, "time_template") /\ config.time_template = "malformed" THEN Invalid
    ELSE IF ~Has(config, "time") /\ ~Has(config, "time_template") THEN Invalid
    ELSE Ok(TimeSlotFromConfig(config))

(* _DATE_SCHEMA, likewise, then DateSlot.from_config *)
DATE_SCHEMA(config) ==
    IF ~(config.keys \subseteq {"name", "date", "date_template"}) THEN Invalid
    ELSE IF ~Has(config, "name") THEN Invalid
    ELSE IF Has(config, "date") /\ Has(config, "date_template") THEN Invalid
    ELSE IF Has(config, "date") /\ ~parse_date(config.date).ok THEN Invalid
    ELSE IF Has(config, "date_template") /\ config.date_template = "malformed" THEN Invalid
    ELSE IF ~Has(config, "date") /\ ~Has(config, "date_template") THEN Invalid
    ELSE Ok(DateSlotFromConfig(config))

(* [schema]: every element of the list validated by the schema; a list
   without elements is valid. *)
ListOf(results) ==
    IF \E i \in 1..Len(results) : ~results[i].ok THEN Invalid
    ELSE Ok([i \in 1..Len(results) |-> results[i].val])

(* vol.Any(a, b): the first alternative that validates *)
FirstValid(a, b) == IF a.ok THEN a ELSE b

(* vol.Any([_TIME_SCHEMA], [_DATE_SCHEMA]) *)
SLOTS_SCHEMA(configs) ==
    FirstValid(ListOf([i \in 1..Len(configs) |-> TIME_SCHEMA(configs[i])]),
               ListOf([i \in 1..Len(configs) |-> DATE_SCHEMA(configs[i])]))

(* A schedule's configuration is a bare list of slot definitions, [form |->
   "list", schedule |-> the list], or the dict {name, condition, schedule},
   [form |-> "dict", keys, name, condition, schedule]. *)
ValidatedSchedule(config, slots) ==
    IF slots.ok THEN Ok([config EXCEPT !.schedule = slots.val]) ELSE Invalid

(* _SCHEDULE_SCHEMA: the dict with its required slot list, or a slot list *)
SCHEDULE_SCHEMA(config) ==
    IF config.form = "dict" /\ ~Has(config, "schedule") THEN Invalid
    ELSE ValidatedSchedule(config, SLOTS_SCHEMA(config.schedule))

(* PLATFORM_SCHEMA on the dict [name, schedules, schedule]: name required,
   schedules and schedule exclusive *)
ValidatedPlatform(config, scheds, sched) ==
    IF ~scheds.ok \/ ~sched.ok THEN Invalid
    ELSE Ok([config EXCEPT !.schedules = scheds.val, !.schedule = sched.val])

PLATFORM_SCHEMA(config) ==
    IF ~Has(config, "name") THEN Invalid
    ELSE IF Has(config, "schedules") /\ Has(config, "schedule") THEN Invalid
    ELSE ValidatedPlatform(config,
            IF Has(config, "schedules")
            THEN ListOf([k \in 1..Len(config.schedules) |->
                            SCHEDULE_SCHEMA(config.schedules[k])])
            ELSE Ok(config.schedules),
            IF Has(config, "schedule") THEN SCHEDULE_SCHEMA(config.schedule)
            ELSE Ok(config.schedule))

----------------------------------------------------------------------------
(* async_setup_platform on a validated configuration *)

(* The first exception of a sequence of calls, or the sequence of what they
   returned *)
Collect(results) ==
    IF \E k \in 1..Len(results) : ~results[k].ok
    THEN Raise(results[CHOOSE k \in 1..Len(results) :
                          /\ ~results[k].ok
                          /\ \A j \in 1..(k - 1) : results[j].ok].err)
    ELSE Ok([k \in 1..Len(results) |-> results[k].val])

(* Schedule(hass, None, None, config.get(ATTR_SCHEDULE)): without the key the
   loop over None raises TypeError; given the dict form, the loop takes the
   dict's keys as the slots and the sort's slot.start raises AttributeError. *)
SingleSchedule(config, yr, tpl) ==
    IF ~Has(config, "schedule") THEN Raise("TypeError")
    ELSE IF config.schedule.form = "dict" THEN Raise("AttributeError")
    ELSE NewSchedule("None", NoCondition, config.schedule.schedule, yr, tpl)

(* One round of the loop over config[ATTR_SCHEDULES]: sched_config.get
   raises AttributeError on a bare list. *)
ListedSchedule(sched_config, yr, tpl) ==
    IF sched_config.form = "list" THEN Raise("AttributeError")
    ELSE NewSchedule(IF Has(sched_config, "name") THEN sched_config.name ELSE "None",
                     IF Has(sched_config, "condition") THEN sched_config.condition
                     ELSE NoCondition,
                     sched_config.schedule, yr, tpl)

(* The schedules async_setup_platform constructs *)
SetupSchedules(config, yr, tpl) ==
    IF ~Has(config, "schedules")
    THEN Collect(<<SingleSchedule(config, yr, tpl)>>)
    ELSE Collect([k \in 1..Len(config.schedules) |->
                     ListedSchedule(config.schedules[k], yr, tpl)])

(* ScheduleSensor(hass, name, schedules): __init__ ends with
   _update_internal_state(utcnow()); built is what constructing the
   schedules did. *)
NewSensor(built, conds, dt, yr, tpl) ==
    IF ~built.ok
    THEN [ok |-> FALSE, err |-> built.err, active |-> 0, schedules |-> <<>>,
          state |-> "None"]
    ELSE UpdateInternalState(built.val, conds, "None", dt, yr, tpl)

----------------------------------------------------------------------------
(* The configurations a platform is set up from *)

MaxConfigSlots == 2         \* slot definitions of the schedule under the `schedule` key
MaxPlatformSchedules == 2   \* schedules under the `schedules` key

(* The shapes of a slot definition: well-formed with a literal or with a
   template, with both, with neither, without a name, with a literal no
   format accepts, with a template that does not compile *)
SlotForms ==
    {"literal", "template", "both", "neither", "noname", "badliteral", "malformed"}

ConfigText(kind, i) == IF kind = "time" THEN TimeText(i) ELSE MonthDayText(3 * i, 1)

(* The slot definition of the given shape at position i of schedule k *)
RawSlot(form, kind, k, i) ==
    LET lit == form \in {"literal", "both", "noname", "badliteral"}
        tpl == form \in {"template", "both", "malformed"}
        txt == IF ~lit THEN <<>>
               ELSE IF form # "badliteral" THEN ConfigText(kind, i)
               ELSE IF kind = "time" THEN BadTimeText ELSE BadDateText
        src == IF ~tpl THEN "" ELSE IF form = "malformed" THEN "malformed" ELSE "valid"
    IN  [keys |-> (IF form = "noname" THEN {} ELSE {"name"})
                     \cup (IF lit THEN {kind} ELSE {})
                     \cup (IF tpl THEN {IF kind = "time" THEN "time_template"
                                        ELSE "date_template"} ELSE {}),
         name |-> IF form = "noname" THEN "" ELSE SlotNames[k][i],
         time |-> IF kind = "time" THEN txt ELSE <<>>,
         time_template |-> IF kind = "time" THEN src ELSE "",
         date |-> IF kind = "date" THEN txt ELSE <<>>,
         date_template |-> IF kind = "date" THEN src ELSE ""]

(* The lists of up to n slot definitions of the given shapes *)
RawSlotLists(k, n, forms) ==
    UNION { { [i \in 1..m |-> RawSlot(fk[i][1], fk[i][2], k, i)] :
                fk \in [1..m -> forms \X {"time", "date"}] } : m \in 0..n }

(* The configurations of schedule k with one of the given slot lists: the
   bare list, and the dict with or without name and condition *)
ScheduleConfigs(k, lists) ==
    { [form |-> "list", keys |-> {}, name |-> "", condition |-> "", schedule |-> l] :
        l \in lists }
    \cup
    { [form |-> "dict", keys |-> ks \cup {"schedule"},
       name |-> IF "name" \in ks THEN ScheduleNames[k] ELSE "",
       condition |-> IF "condition" \in ks THEN "cond" ELSE "",
       schedule |-> l] : l \in lists, ks \in SUBSET {"name", "condition"} }

NoScheduleConfig == [form |-> "absent"]

PlatformConfig(keys, scheds, sched) ==
    [keys |-> keys, name |-> IF "name" \in keys THEN "sensor" ELSE "",
     schedules |-> scheds, schedule |-> sched]

(* The platform configurations: every schedule configuration under the
   single `schedule` key; lists of schedules with at most one well-formed
   literal slot each under `schedules`; and a dict without its slot list, no
   schedule key, both schedule keys, no name. *)
PlatformConfigs ==
    { PlatformConfig({"name", "schedule"}, <<>>, sc) :
        sc \in ScheduleConfigs(1, RawSlotLists(1, MaxConfigSlots, SlotForms)) }
    \cup
    UNION { { PlatformConfig({"name", "schedules"}, scs, NoScheduleConfig) :
                scs \in { f \in [1..n -> UNION { ScheduleConfigs(k, RawSlotLists(k, 1, {"literal"}))
                                                  : k \in 1..n }] :
                            \A k \in 1..n :
                               f[k] \in ScheduleConfigs(k, RawSlotLists(k, 1, {"literal"})) } }
            : n \in 0..MaxPlatformSchedules }
    \cup
    { PlatformConfig({"name", "schedule"}, <<>>,
                     [form |-> "dict", keys |-> {"name"}, name |-> ScheduleNames[1],
                      condition |-> "", schedule |-> <<>>]),
      PlatformConfig({"name"}, <<>>, NoScheduleConfig),
      PlatformConfig({"name", "schedule", "schedules"}, <<>>,
                     [form |-> "list", keys |-> {}, name |-> "", condition |-> "",
                      schedule |-> <<RawSlot("literal", "time", 1, 1)>>]),
      PlatformConfig({"schedule"}, <<>>,
                     [form |-> "list", keys |-> {}, name |-> "", condition |-> "",
                      schedule |-> <<RawSlot("literal", "time", 1, 1)>>]) }

(* The schedule configurations of a platform configuration, in order *)
ScheduleConfigsOf(config) ==
    IF Has(config, "schedules") THEN config.schedules
    ELSE IF Has(config, "schedule") THEN <<config.schedule>>
    ELSE <<>>

(* The slots the schema makes of the configuration under the single
   `schedule` key, the only place where the configurations have templates *)
ValidatedSlots(v) ==
    IF v.ok /\ Has(v.val, "schedule") /\ ~Has(v.val, "schedules")
    THEN v.val.schedule.schedule
    ELSE <<>>

(* What the templates of validated slots may render to *)
PlatformRenderStates(slots) ==
    IF TemplateNames(slots) = {} THEN {<<>>} ELSE RenderStates(slots, 1)

(* What calling a condition does in these runs *)
PlatformConditionResults == {Ok(TRUE), Ok(FALSE)}

(* The instants given to the sensor: before and after every configured
   boundary *)
PlatformInstants ==
    {DateTime(FirstYear, 1, 1, 0, 0, 0), DateTime(FirstYear, 6, 15, 1, 0, 0)}

NotCalled == Raise("not called")

----------------------------------------------------------------------------
(* A platform set up from its configuration, and the sensor it creates *)

PlatformInit ==
    /\ year = FirstYear
    /\ \E config \in PlatformConfigs :
         /\ setup = [phase |-> "config", config |-> config, valid |-> NotCalled]
         /\ render \in PlatformRenderStates(ValidatedSlots(PLATFORM_SCHEMA(config)))
         /\ cond \in [1..Len(ScheduleConfigsOf(config)) -> PlatformConditionResults]
         /\ \A k \in 1..Len(ScheduleConfigsOf(config)) :
               (Has(config, "schedules") /\ Has(ScheduleConfigsOf(config)[k], "condition"))
                  \/ cond[k] = Ok(TRUE)
    /\ schedules = <<>>
    /\ sensor_state = "None"
    /\ active_schedule = 0
    /\ timers = 0
    /\ added = FALSE
    /\ next_update = 0
    /\ boundary0 = <<>>
    /\ last = [op |-> "init"]

(* The host validates the configuration with PLATFORM_SCHEMA. *)
ValidatePlatform ==
    \E v \in {PLATFORM_SCHEMA(setup.config)} :
        /\ setup.phase = "config"
        /\ setup' = [setup EXCEPT !.phase = IF v.ok THEN "valid" ELSE "invalid",
                                  !.valid = v]
        /\ last' = [op |-> "validate", ok |-> v.ok, err |-> v.err]
        /\ UNCHANGED <<schedules, year, sensor_state, active_schedule, timers, added,
                       next_update, render, cond, boundary0>>

(* async_setup_platform on the validated configuration, utcnow() giving the
   instant dt and now seconds since the epoch: the schedules are constructed,
   then the sensor, whose constructor runs a first _update_internal_state.
   An exception ends the setup without a sensor. *)
AsyncSetupPlatform(dt, now) ==
    /\ setup.phase = "valid"
    /\ \E built \in {SetupSchedules(setup.valid.val, year, render)} :
        \E first \in {NewSensor(built, cond, dt, year, render)} :
          /\ setup' = [setup EXCEPT !.phase = IF first.ok THEN "done" ELSE "failed"]
          /\ schedules' = first.schedules
          /\ sensor_state' = first.state
          /\ active_schedule' = IF first.ok THEN first.active ELSE 0
          /\ next_update' = IF first.ok THEN now + 10 ELSE next_update
          /\ boundary0' = [k \in 1..Len(first.schedules) |->
                              SortKeys(first.schedules[k], year, render)]
          /\ last' = [op |-> "setup", dt |-> dt, now |-> now, ok |-> first.ok,
                      err |-> first.err]
          /\ UNCHANGED <<year, timers, added, render, cond>>

PlatformNext ==
    \/ ValidatePlatform
    \/ \E dt \in PlatformInstants : \E now \in Nows : AsyncSetupPlatform(dt, now)
    \/ \E now \in Nows : AddedToHass(now)
    \/ \E dt \in PlatformInstants : \E now \in Nows : PointInTimeListener(dt, now)
    \/ \E k \in 1..Len(schedules) : \E c \in PlatformConditionResults : HostCondition(k, c)

PlatformSpec == PlatformInit /\ [][PlatformNext]_vars

----------------------------------------------------------------------------
(* Properties of the platform and its sensor (checked under PlatformSpec) *)

(* The last step ran _calculate_next_update to its end: async_added_to_hass,
   or a cycle of point_in_time_listener that did not raise. *)
LastCalculation == last.op \in {"added", "cycle"} /\ last.ok

(* C11: with an active schedule, the next update is now + delta where
   1 <= delta <= interval and now + delta is a multiple of the interval, the
   least one strictly greater than now: on a boundary the next update is a
   whole interval later, and 59 seconds after a UTC midnight the next update
   of a date schedule is the next UTC midnight. *)
C11_NextUpdateOnIntervalBoundary ==
    (LastCalculation /\ active_schedule # 0) =>
        LET interval == ScheduleInterval(schedules[active_schedule]).val
            delta == next_update - last.now
        IN  /\ 1 <= delta /\ delta <= interval
            /\ next_update % interval = 0
            /\ next_update - interval <= last.now
            /\ (last.now % interval = 0) => next_update = last.now + interval
            /\ (interval = 86400 /\ last.now = Midnight + 59)
                  => next_update = Midnight + 86400

(* A cycle of a sensor whose active schedule has date slots, 59 seconds
   after a UTC midnight: the next update is the next midnight. *)
C11_Witness ==
    /\ last.op = "cycle" /\ last.ok
    /\ active_schedule # 0
    /\ schedules[active_schedule].slots[1].kind = "date"
    /\ last.now = Midnight + 59
    /\ next_update = Midnight + 86400

(* C12: with no active schedule (no schedule at all, or none whose active
   was true at the selection) the next update is exactly now + 10 seconds,
   whatever the intervals of the schedules. *)
C12_DefaultDeltaWithoutActiveSchedule ==
    (LastCalculation /\ active_schedule = 0) => next_update = last.now + 10

(* A cycle of a sensor that has a schedule of date slots whose condition is
   false: the next update is 10 seconds after now, off every boundary. *)
C12_Witness ==
    /\ last.op = "cycle" /\ last.ok
    /\ active_schedule = 0
    /\ Len(schedules) >= 1
    /\ Len(schedules[1].slots) = 1
    /\ schedules[1].slots[1].kind = "date"
    /\ last.now = Midnight + 59
    /\ next_update = Midnight + 69

(* The slot definitions of a platform configuration *)
SlotDefinitions(config) ==
    UNION { { sc.schedule[i] : i \in 1..Len(sc.schedule) } :
              sc \in { ScheduleConfigsOf(config)[k] :
                          k \in 1..Len(ScheduleConfigsOf(config)) } }

BoundaryKeys == {"time", "time_template", "date", "date_template"}

(* C13: no Schedule without slots ever exists: neither among the schedules
   the setup constructed, nor as the object of an update that raised
   IndexError on its empty slot list. *)
C13_NoScheduleWithoutSlots ==
    /\ \A k \in 1..Len(schedules) : Len(schedules[k].slots) >= 1
    /\ last.op \in {"setup", "cycle"} => last.err # "IndexError"

(* C14: once the configuration has been validated, it is accepted only if
   every slot definition in it has a name and exactly one of its boundary
   keys (a definition with both a literal and a template, or with neither,
   makes the validation fail), and every slot made from it has either its
   literal or its template. *)
C14_ExactlyOneBoundarySource ==
    (setup.phase # "config" /\ setup.valid.ok) =>
        /\ \A d \in SlotDefinitions(setup.config) :
              /\ Has(d, "name")
              /\ Cardinality(d.keys \cap BoundaryKeys) = 1
        /\ \A sc \in { ScheduleConfigsOf(setup.valid.val)[k] :
                          k \in 1..Len(ScheduleConfigsOf(setup.valid.val)) } :
              \A i \in 1..Len(sc.schedule) :
                 (sc.schedule[i].literal = <<>>) # (sc.schedule[i].template = NoTemplate)

(* A list of a well-formed time slot and a time slot with both time and
   time_template has been rejected. *)
C14_Witness ==
    /\ setup.phase = "invalid"
    /\ setup.config.keys = {"name", "schedule"}
    /\ setup.config.schedule.form = "list"
    /\ Len(setup.config.schedule.schedule) = 2
    /\ setup.config.schedule.schedule[1].keys = {"name", "time"}
    /\ TIME_SCHEMA(setup.config.schedule.schedule[1]).ok
    /\ setup.config.schedule.schedule[2].keys = {"name", "time", "time_template"}
    /\ setup.config.schedule.schedule[2].time_template = "valid"

(* The validated schedule configurations the last setup was given *)
SetUpFrom == ScheduleConfigsOf(setup.valid.val)

(* Every schedule configuration has slots, all of them literal: constructing
   and updating the schedules raises nothing. *)
LiteralSlotsOnly ==
    /\ Len(SetUpFrom) >= 1
    /\ \A k \in 1..Len(SetUpFrom) :
          /\ Len(SetUpFrom[k].schedule) >= 1
          /\ \A i \in 1..Len(SetUpFrom[k].schedule) :
                SetUpFrom[k].schedule[i].template = NoTemplate

(* C20: async_setup_platform turns every accepted configuration (the bare
   list and the dict form, under `schedule` and as elements of `schedules`)
   into one Schedule per schedule configuration, carrying its slots, its name
   and its condition. *)
C20_AcceptedShapesAreSetUp ==
    (last.op = "setup" /\ LiteralSlotsOnly) =>
        /\ last.ok
        /\ Len(schedules) = Len(SetUpFrom)
        /\ \A k \in 1..Len(SetUpFrom) :
              /\ Len(schedules[k].slots) = Len(SetUpFrom[k].schedule)
              /\ {schedules[k].slots[i] : i \in 1..Len(schedules[k].slots)}
                    = {SetUpFrom[k].schedule[i] : i \in 1..Len(SetUpFrom[k].schedule)}
              /\ schedules[k].name =
                    (IF Has(SetUpFrom[k], "name") THEN SetUpFrom[k].name ELSE "None")
              /\ schedules[k].condition =
                    (IF Has(SetUpFrom[k], "condition") THEN SetUpFrom[k].condition
                     ELSE NoCondition)

----------------------------------------------------------------------------
(* Frame and comparison properties of Schedule and its slots *)

(* C15: a schedule's state changes only in an update: the schedules the
   sensor's constructor did not update are "unknown", and a step changes the
   state of schedule k only if it is a completed cycle that selected and
   updated k; reads of name, state and interval, reads of active (the
   condition raising or not) and the host's changes leave every state. *)
C15_StateMutatedOnlyByUpdate ==
    /\ \A k \in 1..Len(schedules) :
          k # active_schedule => schedules[k].state = "unknown"
    /\ [][\A k \in 1..Len(schedules) :
             schedules'[k].state # schedules[k].state
                => (last'.op = "cycle" /\ last'.ok /\ active_schedule' = k)]_vars

(* active was read on a schedule that had been updated, its condition raised
   an exception that active does not catch, and the state is still a slot's
   name. *)
C15_Witness ==
    /\ last.op = "active"
    /\ ~last.res.ok
    /\ schedules[last.sched].state # "unknown"

(* C16: an update changes nothing of the schedule but its state: the slots
   and their order, the name and the condition are as before the call, and
   no other schedule is touched. *)
C16_UpdateChangesOnlyState ==
    [][last'.op = "update" =>
          /\ Len(schedules') = Len(schedules)
          /\ \A k \in 1..Len(schedules) :
                /\ schedules'[k].slots = schedules[k].slots
                /\ schedules'[k].name = schedules[k].name
                /\ schedules'[k].condition = schedules[k].condition
                /\ k # last'.sched => schedules'[k] = schedules[k]]_vars

(* An update returned on a schedule whose boundaries, as slot.start gives
   them now, are no longer in descending order: the slots were not sorted
   again. *)
C16_Witness ==
    /\ LastUpdate /\ last.res.ok
    /\ AllStartsResolve
    /\ TheSchedule.state # "unknown"
    /\ \E i, j \in 1..Len(TheSchedule.slots) :
          i < j /\ Less(StartNow(i).val, StartNow(j).val)

(* A time-of-day or a date as one number, in the order of its fields *)
Ordinal(v) == v[1] * 10000 + v[2] * 100 + v[3]

(* a and b are what after and active_at did for a slot whose start did s at
   an instant of projection p. *)
AfterAndActiveAt(a, b, p, s) ==
    IF s.ok
    THEN /\ a.ok /\ b.ok
         /\ a.val <=> (Ordinal(p) < Ordinal(s.val))
         /\ b.val <=> (Ordinal(p) >= Ordinal(s.val))
         /\ a.val # b.val
         /\ (p = s.val) => (b.val /\ ~a.val)
    ELSE ~a.ok /\ ~b.ok

(* C17: for every slot and every instant, after is true exactly when the
   instant's projection is strictly earlier than start and active_at exactly
   when it is at or later than start, so that exactly one of them holds and
   the instant equal to start is active; both raise when start raises. *)
C17_AfterAndActiveAtComplement ==
    \A i \in 1..Len(TheSchedule.slots) :
        \A dt \in Instants(Kind(TheSchedule), MaxHour) :
            AfterAndActiveAt(after(TheSchedule.slots[i], dt, year, render),
                             active_at(TheSchedule.slots[i], dt, year, render),
                             Converter(TheSchedule.slots[i], dt),
                             StartNow(i))

(* An update of a schedule of date slots at the very date of a slot's
   boundary selected that slot in the scan. *)
C17_Witness ==
    /\ LastUpdate /\ last.res.ok
    /\ Kind(TheSchedule) = "date"
    /\ last.res.branch = "scan"
    /\ \E i \in 1..Len(TheSchedule.slots) :
          /\ TheSchedule.state = TheSchedule.slots[i].name
          /\ StartNow(i) = Ok(Projection)

(* C18: the interval of a schedule is 60 when its slots are TimeSlots and
   86400 when they are DateSlots, the granularity of the slot with the
   largest boundary, in every state: whatever slot is active and however
   many updates have run. *)
C18_IntervalIsSlotGranularity ==
    /\ (\A i \in 1..Len(TheSchedule.slots) : TheSchedule.slots[i].kind = "time")
          => ScheduleInterval(TheSchedule) = Ok(60)
    /\ (\A i \in 1..Len(TheSchedule.slots) : TheSchedule.slots[i].kind = "date")
          => ScheduleInterval(TheSchedule) = Ok(86400)
    /\ AllStartsResolve
          => \A i \in 1..Len(TheSchedule.slots) :
                LargestStart(i)
                   => ScheduleInterval(TheSchedule) = Ok(SlotInterval(TheSchedule.slots[i]))
    /\ last.op = "read"
          => (last.interval = ScheduleInterval(TheSchedule) /\ last.interval.val \in {60, 86400})

(* interval read on a schedule of date slots after an update selected a slot
   that is not the first. *)
C18_Witness ==
    /\ last.op = "read"
    /\ Kind(TheSchedule) = "date"
    /\ last.interval = Ok(86400)
    /\ last.state # "unknown"
    /\ last.state # TheSchedule.slots[1].name

----------------------------------------------------------------------------
(* parse_date and parse_time applied to texts *)

(* The values a text may have for a directive: in and out of its range *)
DirectiveValues(d) ==
    CASE d = "%Y" -> {FirstYear}
      [] d = "%m" -> {2, 13}
      [] d = "%d" -> {1, 29, 30}
      [] d = "%H" -> {1, 24}
      [] d = "%M" -> {0, 60}
      [] d = "%S" -> {0}
      [] d = "%f" -> {0}

(* The tokens a text may have where the format has f *)
TokensFor(f) ==
    IF f \in Directives THEN {Num(n) : n \in DirectiveValues(f)} ELSE {Sep(f)}

(* The texts that have the shape of a format, from its position i on *)
RECURSIVE TextsOfFormatFrom(_, _)
TextsOfFormatFrom(fmt, i) ==
    IF i > Len(fmt) THEN {<<>>}
    ELSE { <<tok>> \o rest : tok \in TokensFor(fmt[i]),
                             rest \in TextsOfFormatFrom(fmt, i + 1) }

(* The texts given to the parsers: those of the shape of a date or time
   format, and the two texts of no format *)
ParseTexts ==
    UNION { TextsOfFormatFrom(DATE_FORMATS[i], 1) : i \in 1..Len(DATE_FORMATS) }
    \cup UNION { TextsOfFormatFrom(TIME_FORMATS[i], 1) : i \in 1..Len(TIME_FORMATS) }
    \cup {BadDateText, BadTimeText}

(* What a parser did with a value: its result and, when it raised, the
   message of the exception *)
Parsed(op, value, res) ==
    [op |-> op, value |-> value, res |-> res,
     message |-> IF res.ok THEN <<>> ELSE ParseErrorMessage(value)]

ParseInit ==
    /\ last \in [op : {"text"}, value : ParseTexts]
    /\ schedules = <<>>
    /\ year = FirstYear
    /\ sensor_state = "None"
    /\ active_schedule = 0
    /\ timers = 0
    /\ added = FALSE
    /\ next_update = 0
    /\ setup = NoSetup
    /\ render = <<>>
    /\ cond = <<>>
    /\ boundary0 = <<>>

(* parse_date(value) *)
ParseDate ==
    /\ last.op = "text"
    /\ last' = Parsed("parse_date", last.value, parse_date(last.value))
    /\ UNCHANGED <<schedules, year, sensor_state, active_schedule, timers, added,
                   next_update, setup, render, cond, boundary0>>

(* parse_time(value) *)
ParseTime ==
    /\ last.op = "text"
    /\ last' = Parsed("parse_time", last.value, parse_time(last.value))
    /\ UNCHANGED <<schedules, year, sensor_state, active_schedule, timers, added,
                   next_update, setup, render, cond, boundary0>>

ParsersNext == ParseDate \/ ParseTime

ParseSpec == ParseInit /\ [][ParsersNext]_vars

----------------------------------------------------------------------------
(* Properties of the parsers (checked under ParseSpec) *)

(* The formats of the parser that ran last *)
FormatsTried == IF last.op = "parse_date" THEN DATE_FORMATS ELSE TIME_FORMATS

(* The part of a datetime the parser that ran last returns *)
PartReturned(dt) == IF last.op = "parse_date" THEN DateOf(dt) ELSE TimeOf(dt)

(* Format i is the first that parses the value. *)
FirstMatch(i) ==
    /\ strptime(last.value, FormatsTried[i]).ok
    /\ \A j \in 1..(i - 1) : ~strptime(last.value, FormatsTried[j]).ok

NoMatch == \A i \in 1..Len(FormatsTried) : ~strptime(last.value, FormatsTried[i]).ok

(* The message contains the value. *)
Names(message, value) ==
    \E i \in 1..Len(message) :
        /\ i + Len(value) - 1 <= Len(message)
        /\ SubSeq(message, i, i + Len(value) - 1) = value

(* C19: a parser returns what the first of its formats that parses the value
   gives; a value that none of its formats parses is not defaulted: the
   parser raises ValueError, and the message of the error contains the
   value. *)
C19_ParseErrorNamesValue ==
    last.op \in {"parse_date", "parse_time"} =>
        /\ \A i \in 1..Len(FormatsTried) :
              FirstMatch(i) =>
                 last.res = Ok(PartReturned(strptime(last.value, FormatsTried[i]).val))
        /\ NoMatch =>
              /\ last.res = Raise("ValueError")
              /\ Names(last.message, last.value)

(* C19 without the message of the error *)
C19_FirstFormatOrError ==
    last.op \in {"parse_date", "parse_time"} =>
        /\ \A i \in 1..Len(FormatsTried) :
              FirstMatch(i) =>
                 last.res = Ok(PartReturned(strptime(last.value, FormatsTried[i]).val))
        /\ NoMatch => last.res = Raise("ValueError")

----------------------------------------------------------------------------
(* Frame of a polling cycle (checked under SensorSpec) *)

(* The step is a run of point_in_time_listener. *)
CycleStep == last'.op = "cycle"

(* C21: a polling cycle changes the state of at most one schedule, the one
   it selected as active, and nothing else of any schedule; a cycle that
   selects no schedule changes no schedule and leaves the sensor's state at
   its previous value. *)
C21_CycleUpdatesOnlyActiveSchedule ==
    [][CycleStep =>
          /\ Len(schedules') = Len(schedules)
          /\ \A k \in 1..Len(schedules) :
                /\ k # active_schedule' => schedules'[k] = schedules[k]
                /\ schedules'[k] = [schedules[k] EXCEPT !.state = schedules'[k].state]
          /\ active_schedule' = 0 => /\ schedules' = schedules
                                     /\ sensor_state' = sensor_state]_vars

(* A cycle found no schedule active while the sensor reports the slot of an
   earlier cycle and a schedule still holds the state of its last update. *)
C21_Witness ==
    /\ LastCycle /\ last.ok
    /\ active_schedule = 0
    /\ sensor_state \notin {"None", "unknown"}
    /\ Len(schedules) = 2
    /\ \E k \in 1..2 : schedules[k].state = sensor_state

----------------------------------------------------------------------------
(* The callbacks of a sensor added to the host (checked under SensorSpec) *)

(* The last operation registered a callback: async_added_to_hass or a run of
   point_in_time_listener that raised nothing. *)
Registered == last.op \in {"added", "cycle"} /\ last.ok

(* C22: once the sensor is added to the host, a run of
   point_in_time_listener that raises nothing registers one callback for an
   instant at least a second after the current time, and at all times
   exactly one callback is outstanding, never none and never two. *)
C22_AlwaysOneOutstandingCallback ==
    added =>
        /\ timers = 1
        /\ Registered => next_update >= last.now + 1

(* C22 for the runs that raise nothing only: after such a run exactly one
   callback is outstanding, for an instant at least a second after the
   current time. *)
C22_ErrorFreeCycleRegistersOne ==
    (added /\ Registered) =>
        /\ timers = 1
        /\ next_update >= last.now + 1

(* Never two callbacks are outstanding. *)
C22_NeverTwoCallbacks == timers <= 1

(* With no callback outstanding no later step registers one: the listener
   never runs again. *)
C22_NoCallbackNoCycle ==
    [][(added /\ timers = 0) => (timers' = 0 /\ last'.op # "cycle")]_vars

----------------------------------------------------------------------------
(* update and the history of a schedule of literal slots (checked under Spec) *)

(* The schedule as its constructor left it: the state is "unknown". *)
Fresh(schedule) == [schedule EXCEPT !.state = "unknown"]

(* The state update(last.dt) alone leaves: the update applied to the
   schedule as constructed, under the host's present state *)
StateOfUpdateAlone ==
    ScheduleUpdate(Fresh(TheSchedule), last.dt, year, render).state

(* C23: for a schedule whose slots all have literal boundaries, the state
   after update(t) is the state update(t) alone gives, whatever updates came
   before and whatever state they left. *)
C23_UpdateForgetsHistory ==
    (LastUpdate /\ IsLiteral(TheSchedule)) => TheSchedule.state = StateOfUpdateAlone

(* C23 for the updates that raise nothing *)
C23_CompletedUpdateForgetsHistory ==
    (LastUpdate /\ IsLiteral(TheSchedule) /\ last.res.ok)
        => TheSchedule.state = StateOfUpdateAlone

(* update(t) directly after update(t) leaves the state of a schedule of
   literal slots as it is. *)
C23_RepeatedUpdateSameState ==
    [][(LastUpdate /\ last'.op = "update" /\ last'.dt = last.dt
          /\ IsLiteral(TheSchedule))
        => schedules'[1].state = TheSchedule.state]_vars

====
